---- MODULE Spec2Model ----
(***************************************************************************)
(* Model of the Private Captcha Go client (private-captcha-go, v0.0.6):    *)
(* Client.Verify, its retry loop, Client.doVerify and the data types of    *)
(* models.go.  One Verify call at a time runs on the client; the network   *)
(* round trip and the sleep between attempts are the two suspension points *)
(* of the call and are the two steps of the loop.                          *)
(***************************************************************************)
EXTENDS Integers, Sequences, FiniteSets, TLC

\* ------------------------------------------------------------------------
\* Bounds of the model (not program constants)
\* ------------------------------------------------------------------------
\* largest Attempts value a caller passes (0 selects the default)
MaxAttemptsInput == 3
\* largest MaxBackoffSeconds value a caller passes (0 selects the default)
MaxBackoffInput == 2
\* rand.Float64() is drawn from {0/JitterSteps, ..., (JitterSteps-1)/JitterSteps}
JitterSteps == 2
\* slashes at the end of a Domain
MaxTrailingSlashes == 2
\* values of VerifyCode beyond VERIFY_CODES_COUNT that are rendered
MaxUnknownCodes == 2

\* ------------------------------------------------------------------------
\* Program constants
\* ------------------------------------------------------------------------
minBackoffMillis == 250
DefaultAttempts == 5
DefaultMaxBackoffSeconds == 4
BackoffFactor == 2

VerifyNoError == 0
ParseResponseError == 4
TestPropertyError == 10
VERIFY_CODES_COUNT == 13

StatusForbidden == 403
StatusTooManyRequests == 429
StatusInternalServerError == 500
StatusServiceUnavailable == 503
StatusBadGateway == 502
StatusGatewayTimeout == 504
StatusRequestTimeout == 408
StatusTooEarly == 425

\* ------------------------------------------------------------------------
\* Errors
\* ------------------------------------------------------------------------
\* the nil error
NoErr == [type |-> "nil"]

\* errEmtpySolution
errEmtpySolution == [type |-> "errEmtpySolution"]

\* an error of another package: "request" (http.NewRequestWithContext),
\* "net" (http.Client.Do), "json" (json.Decoder.Decode)
ForeignError(k) == [type |-> k]

\* HTTPError{StatusCode, Seconds}
HTTPError(status, seconds) ==
    [type |-> "HTTPError", StatusCode |-> status, Seconds |-> seconds]

\* retriableError{err}
retriableError(e) == [type |-> "retriableError", cause |-> e]

\* errors.As(err, &rerr) for rerr of type retriableError
IsRetriable(e) == e.type = "retriableError"

\* rerr after errors.As(err, &rerr): the retriableError found, or the zero
\* value retriableError{nil} the variable was declared with
AsRetriable(e) == IF IsRetriable(e) THEN e ELSE retriableError(NoErr)

\* Unwrap that returns the wrapper instead of the wrapped error
UnwrapKeepsWrapper(rerr) == rerr

\* retriableError.Unwrap
Unwrap(rerr) == rerr.cause

\* errors.As(err, &httpErr) for httpErr of type HTTPError: the error itself
\* or the cause a retriableError unwraps to
AsHTTPError(e) ==
    IF e.type = "HTTPError" THEN [ok |-> TRUE, httpErr |-> e]
    ELSE IF e.type = "retriableError" /\ e.cause.type = "HTTPError"
         THEN [ok |-> TRUE, httpErr |-> e.cause]
    ELSE [ok |-> FALSE, httpErr |-> HTTPError(0, 0)]

\* GetStatusCode(err)
GetStatusCode(e) ==
    LET r == AsHTTPError(e)
    IN  IF r.ok THEN [code |-> r.httpErr.StatusCode, ok |-> TRUE]
        ELSE [code |-> 0, ok |-> FALSE]

\* ------------------------------------------------------------------------
\* VerifyOutput
\* ------------------------------------------------------------------------
\* a nil *VerifyOutput
NilOutput == [isNil |-> TRUE]

\* &VerifyOutput{Success, Code, requestID, attempt}
VerifyOutput(success, code, requestID, attempt) ==
    [isNil |-> FALSE, Success |-> success, Code |-> code,
     requestID |-> requestID, attempt |-> attempt]

\* String that renders VerifiedBeforeError like DuplicateSolutionsError
VerifyCodeStringMerged(verr) ==
    CASE verr = 0 -> ""
      [] verr = 1 -> "error-other"
      [] verr = 2 -> "solution-duplicates"
      [] verr = 3 -> "solution-invalid"
      [] verr = 4 -> "solution-bad-format"
      [] verr = 5 -> "puzzle-expired"
      [] verr = 6 -> "property-invalid"
      [] verr = 7 -> "property-owner-mismatch"
      [] verr = 8 -> "solution-duplicates"
      [] verr = 9 -> "maintenance-mode"
      [] verr = 10 -> "property-test"
      [] verr = 11 -> "integrity-error"
      [] verr = 12 -> "property-org-scope"
      [] OTHER -> "error"

\* VerifyCode.String
VerifyCodeString(verr) ==
    CASE verr = 0 -> ""
      [] verr = 1 -> "error-other"
      [] verr = 2 -> "solution-duplicates"
      [] verr = 3 -> "solution-invalid"
      [] verr = 4 -> "solution-bad-format"
      [] verr = 5 -> "puzzle-expired"
      [] verr = 6 -> "property-invalid"
      [] verr = 7 -> "property-owner-mismatch"
      [] verr = 8 -> "solution-verified-before"
      [] verr = 9 -> "maintenance-mode"
      [] verr = 10 -> "property-test"
      [] verr = 11 -> "integrity-error"
      [] verr = 12 -> "property-org-scope"
      [] OTHER -> "error"

\* OK that looks at the Success flag only
OKSuccessOnly(vr) == IF vr.isNil THEN FALSE ELSE vr.Success

\* VerifyOutput.OK
OK(vr) == IF vr.isNil THEN FALSE ELSE vr.Success /\ vr.Code = VerifyNoError

\* VerifyOutput.RequestID
RequestID(vr) == IF vr.isNil THEN "" ELSE vr.requestID

\* VerifyOutput.Error
ErrorText(vr) == IF vr.isNil THEN "" ELSE VerifyCodeString(vr.Code)

\* ------------------------------------------------------------------------
\* strconv.Atoi on a header value, a sequence of characters
\* ------------------------------------------------------------------------
DigitValue(c) ==
    CASE c = "0" -> 0 [] c = "1" -> 1 [] c = "2" -> 2 [] c = "3" -> 3
      [] c = "4" -> 4 [] c = "5" -> 5 [] c = "6" -> 6 [] c = "7" -> 7
      [] c = "8" -> 8 [] c = "9" -> 9 [] OTHER -> -1

RECURSIVE ParseDigits(_, _)
\* value of the digit string s appended to the value acc; -1 on a non-digit
ParseDigits(s, acc) ==
    IF s = << >> THEN acc
    ELSE IF DigitValue(Head(s)) < 0 THEN -1
    ELSE ParseDigits(Tail(s), acc * 10 + DigitValue(Head(s)))

Atoi(s) ==
    LET signed == s # << >> /\ Head(s) \in {"-", "+"}
        digits == IF signed THEN Tail(s) ELSE s
        magnitude == IF digits = << >> THEN -1 ELSE ParseDigits(digits, 0)
    IN  IF magnitude < 0 THEN [ok |-> FALSE, value |-> 0]
        ELSE IF signed /\ Head(s) = "-" THEN [ok |-> TRUE, value |-> 0 - magnitude]
        ELSE [ok |-> TRUE, value |-> magnitude]

\* ------------------------------------------------------------------------
\* What one request-response cycle can meet
\* ------------------------------------------------------------------------
\* values of the Retry-After response header ("" when the header is absent)
RetryAfterHeaders ==
    { << >>, <<"a">>, <<"0">>, <<"1">>, <<"1", "0">>, <<"-", "1">> }

\* values of the X-Trace-ID response header
TraceIDs == { "", "t1" }

\* response bodies: not JSON, the JSON literal null, or a JSON object with
\* the fields success and code
Bodies ==
    { [json |-> "garbage"], [json |-> "null"] } \cup
    { [json |-> "object", success |-> s, code |-> c] :
        s \in BOOLEAN, c \in {VerifyNoError, ParseResponseError, TestPropertyError} }

\* status codes a server answers with
FailureStatuses == { 301, 400, 404, 408, 425, 500, 501, 502, 503, 504, 505 }
DecodedStatuses == { 101, 200 }

\* http.NewRequestWithContext fails: no request is sent
ReqFail == [kind |-> "reqfail"]

\* http.Client.Do fails: "net" for a network failure, "canceled" when the
\* context of the call is done
DoFail(why) == [kind |-> "dofail", why |-> why]

\* http.Client.Do returns a response
HTTPReply(status, retryAfter, traceID, body) ==
    [kind |-> "http", status |-> status, retryAfter |-> retryAfter,
     traceID |-> traceID, body |-> body]

HTTPReplies ==
    { HTTPReply(StatusTooManyRequests, h, "", [json |-> "garbage"]) :
        h \in RetryAfterHeaders } \cup
    { HTTPReply(s, << >>, "", [json |-> "garbage"]) : s \in FailureStatuses } \cup
    { HTTPReply(s, << >>, t, body) :
        s \in DecodedStatuses, t \in TraceIDs, body \in Bodies } \cup
    { HTTPReply(200, <<"1", "0">>, "t1", [json |-> "garbage"]),
      HTTPReply(StatusServiceUnavailable, <<"1", "0">>, "", [json |-> "garbage"]) }

\* doVerify builds the request without the API key header
NewRequestNoKey(c, solution) ==
    [method |-> "POST", endpoint |-> c.endpoint, body |-> solution, apiKey |-> ""]

\* the request doVerify builds for the client c and the solution: POST to
\* the endpoint, the solution as body, the API key as header
NewRequest(c, solution) ==
    [method |-> "POST", endpoint |-> c.endpoint, body |-> solution,
     apiKey |-> c.apiKey]

\* Decode that does not fill the Code field
DecodeDropsCode(body, requestID) ==
    CASE body.json = "garbage" ->
            [response |-> VerifyOutput(FALSE, VerifyNoError, requestID, 0), failed |-> TRUE]
      [] body.json = "null" ->
            [response |-> NilOutput, failed |-> FALSE]
      [] OTHER ->
            [response |-> VerifyOutput(body.success, VerifyNoError, requestID, 0), failed |-> FALSE]

\* Decode that leaves no response behind when it fails
DecodeFailureDropsOutcome(body, requestID) ==
    CASE body.json = "garbage" ->
            [response |-> NilOutput, failed |-> TRUE]
      [] body.json = "null" ->
            [response |-> NilOutput, failed |-> FALSE]
      [] OTHER ->
            [response |-> VerifyOutput(body.success, body.code, requestID, 0), failed |-> FALSE]

\* json.NewDecoder(resp.Body).Decode(&response) on a response that holds
\* only the request id: the decoded pointer and whether decoding failed
Decode(body, requestID) ==
    CASE body.json = "garbage" ->
            [response |-> VerifyOutput(FALSE, VerifyNoError, requestID, 0), failed |-> TRUE]
      [] body.json = "null" ->
            [response |-> NilOutput, failed |-> FALSE]
      [] OTHER ->
            [response |-> VerifyOutput(body.success, body.code, requestID, 0), failed |-> FALSE]

\* the statuses of the second case of the switch in doVerify
RetriableStatuses ==
    { StatusInternalServerError, StatusServiceUnavailable, StatusBadGateway,
      StatusGatewayTimeout, StatusRequestTimeout, StatusTooEarly }

\* doVerify that takes every status from 500 on for retriable
doVerifyAny5xx(reply) ==
    IF reply.kind = "reqfail"
    THEN [response |-> NilOutput, err |-> ForeignError("request")]
    ELSE IF reply.kind = "dofail"
    THEN [response |-> NilOutput, err |-> retriableError(ForeignError(reply.why))]
    ELSE IF reply.status = StatusTooManyRequests
    THEN LET parsed == Atoi(reply.retryAfter)
             seconds == IF Len(reply.retryAfter) > 0 /\ parsed.ok
                        THEN parsed.value ELSE 0
         IN  [response |-> NilOutput,
              err |-> retriableError(HTTPError(reply.status, seconds))]
    ELSE IF reply.status >= 500 \/ reply.status \in RetriableStatuses
    THEN [response |-> NilOutput,
          err |-> retriableError(HTTPError(reply.status, 0))]
    ELSE IF reply.status >= 300
    THEN [response |-> NilOutput, err |-> HTTPError(reply.status, 0)]
    ELSE LET d == Decode(reply.body, reply.traceID)
         IN  IF d.failed
             THEN [response |-> d.response, err |-> retriableError(ForeignError("json"))]
             ELSE [response |-> d.response, err |-> NoErr]

\* doVerify that returns the error of Decode as it is, not marked retriable
doVerifyDecodeTerminal(reply) ==
    IF reply.kind = "reqfail"
    THEN [response |-> NilOutput, err |-> ForeignError("request")]
    ELSE IF reply.kind = "dofail"
    THEN [response |-> NilOutput, err |-> retriableError(ForeignError(reply.why))]
    ELSE IF reply.status = StatusTooManyRequests
    THEN LET parsed == Atoi(reply.retryAfter)
             seconds == IF Len(reply.retryAfter) > 0 /\ parsed.ok
                        THEN parsed.value ELSE 0
         IN  [response |-> NilOutput,
              err |-> retriableError(HTTPError(reply.status, seconds))]
    ELSE IF reply.status \in RetriableStatuses
    THEN [response |-> NilOutput,
          err |-> retriableError(HTTPError(reply.status, 0))]
    ELSE IF reply.status >= 300
    THEN [response |-> NilOutput, err |-> HTTPError(reply.status, 0)]
    ELSE LET d == Decode(reply.body, reply.traceID)
         IN  IF d.failed
             THEN [response |-> d.response, err |-> ForeignError("json")]
             ELSE [response |-> d.response, err |-> NoErr]

\* doVerify that reads the Retry-After header for every retriable status
doVerifyHintAnyStatus(reply) ==
    IF reply.kind = "reqfail"
    THEN [response |-> NilOutput, err |-> ForeignError("request")]
    ELSE IF reply.kind = "dofail"
    THEN [response |-> NilOutput, err |-> retriableError(ForeignError(reply.why))]
    ELSE IF reply.status = StatusTooManyRequests
    THEN LET parsed == Atoi(reply.retryAfter)
             seconds == IF Len(reply.retryAfter) > 0 /\ parsed.ok
                        THEN parsed.value ELSE 0
         IN  [response |-> NilOutput,
              err |-> retriableError(HTTPError(reply.status, seconds))]
    ELSE IF reply.status \in RetriableStatuses
    THEN LET parsed == Atoi(reply.retryAfter)
             seconds == IF Len(reply.retryAfter) > 0 /\ parsed.ok
                        THEN parsed.value ELSE 0
         IN  [response |-> NilOutput,
              err |-> retriableError(HTTPError(reply.status, seconds))]
    ELSE IF reply.status >= 300
    THEN [response |-> NilOutput, err |-> HTTPError(reply.status, 0)]
    ELSE LET d == Decode(reply.body, reply.traceID)
         IN  IF d.failed
             THEN [response |-> d.response, err |-> retriableError(ForeignError("json"))]
             ELSE [response |-> d.response, err |-> NoErr]

\* Client.doVerify: one request-response cycle that meets reply
doVerify(reply) ==
    IF reply.kind = "reqfail"
    THEN [response |-> NilOutput, err |-> ForeignError("request")]
    ELSE IF reply.kind = "dofail"
    THEN [response |-> NilOutput, err |-> retriableError(ForeignError(reply.why))]
    ELSE IF reply.status = StatusTooManyRequests
    THEN LET parsed == Atoi(reply.retryAfter)
             seconds == IF Len(reply.retryAfter) > 0 /\ parsed.ok
                        THEN parsed.value ELSE 0
         IN  [response |-> NilOutput,
              err |-> retriableError(HTTPError(reply.status, seconds))]
    ELSE IF reply.status \in RetriableStatuses
    THEN [response |-> NilOutput,
          err |-> retriableError(HTTPError(reply.status, 0))]
    ELSE IF reply.status >= 300
    THEN [response |-> NilOutput, err |-> HTTPError(reply.status, 0)]
    ELSE LET d == Decode(reply.body, reply.traceID)
         IN  IF d.failed
             THEN [response |-> d.response, err |-> retriableError(ForeignError("json"))]
             ELSE [response |-> d.response, err |-> NoErr]

\* ------------------------------------------------------------------------
\* Backoff (github.com/jpillora/backoff), in milliseconds
\* ------------------------------------------------------------------------
RECURSIVE Pow(_, _)
Pow(x, n) == IF n = 0 THEN 1 ELSE x * Pow(x, n - 1)

Min(x, y) == IF x < y THEN x ELSE y

\* Backoff.ForAttempt(attempt) of a Backoff{Min: minBackoffMillis ms,
\* Max: maxMillis ms, Factor: BackoffFactor, Jitter: true}, for the random
\* number jitter / JitterSteps
ForAttempt(attempt, maxMillis, jitter) ==
    IF minBackoffMillis >= maxMillis THEN maxMillis
    ELSE LET durf == minBackoffMillis * Pow(BackoffFactor, attempt)
             dur  == (jitter * (durf - minBackoffMillis)) \div JitterSteps
                        + minBackoffMillis
         IN  IF dur < minBackoffMillis THEN minBackoffMillis
             ELSE IF dur > maxMillis THEN maxMillis
             ELSE dur

\* ------------------------------------------------------------------------
\* Client.Verify
\* ------------------------------------------------------------------------
\* the values of VerifyInput; Solution is the length of the solution string
\* (negative numbers are passed together)
VerifyInputs ==
    [Solution : {0, 4}, MaxBackoffSeconds : 0 .. MaxBackoffInput,
     Attempts : 0 .. MaxAttemptsInput] \cup
    [Solution : {0, 4}, MaxBackoffSeconds : {-1}, Attempts : {-1}]

\* attempts that ignores the Attempts of the input
attemptsAlwaysDefault(in) == DefaultAttempts

\* attempts, as Verify sets it
attempts(in) == IF in.Attempts > 0 THEN in.Attempts ELSE DefaultAttempts

\* maxBackoffSeconds that ignores the MaxBackoffSeconds of the input
maxBackoffSecondsAlwaysDefault(in) == DefaultMaxBackoffSeconds

\* maxBackoffSeconds that takes a MaxBackoffSeconds of 0 as given
maxBackoffSecondsKeepsZero(in) ==
    IF in.MaxBackoffSeconds >= 0 THEN in.MaxBackoffSeconds
    ELSE DefaultMaxBackoffSeconds

\* maxBackoffSeconds, as Verify sets it
maxBackoffSeconds(in) ==
    IF in.MaxBackoffSeconds > 0 THEN in.MaxBackoffSeconds
    ELSE DefaultMaxBackoffSeconds

\* the loop condition with <= for <
LoopContinuesInclusive(n, in) == n <= attempts(in)

\* the loop condition of Verify for the counter value n
LoopContinues(n, in) == n < attempts(in)

\* the guard of the sleep that also holds in the first iteration
SleepsFirstAlways(n) == TRUE

\* the guard of the sleep at the head of the iteration with counter n
SleepsFirst(n) == n > 0

\* the test without errors.As: every error is retried
ShouldRetryAnyError(e) == e # NoErr

\* the test Verify makes on the error of doVerify: unwrap and go on, or break
ShouldRetry(e) == e # NoErr /\ IsRetriable(e)

\* the error kept when an HTTPError with a hint survives a later error that
\* is no HTTPError
errAfterKeepsHint(prev, e) ==
    LET now == IF e # NoErr /\ IsRetriable(e) THEN Unwrap(AsRetriable(e)) ELSE e
    IN  IF prev.type = "HTTPError" /\ prev.Seconds > 0 /\ now.type \notin {"nil", "HTTPError"}
        THEN prev ELSE now

\* the value of err after a doVerify call that returned e, prev being the
\* value before: the assignment, and the unwrapping of a retriable error
errAfter(prev, e) ==
    IF e # NoErr /\ IsRetriable(e) THEN Unwrap(AsRetriable(e)) ELSE e

\* the sleep that takes the retry hint without the min() against the ceiling
backoffDurationUnclamped(computed, e, in) ==
    LET h == AsHTTPError(e)
    IN  IF e # NoErr /\ h.ok /\ h.httpErr.Seconds * 1000 > computed
        THEN h.httpErr.Seconds * 1000
        ELSE computed

\* the sleep that compares the hint in seconds with the delay in milliseconds
backoffDurationMixedUnits(computed, e, in) ==
    LET h == AsHTTPError(e)
    IN  IF e # NoErr /\ h.ok /\ h.httpErr.Seconds > computed
        THEN Min(h.httpErr.Seconds, maxBackoffSeconds(in)) * 1000
        ELSE computed

\* the sleep that takes the retry hint whenever the error carries one
backoffDurationHintAlways(computed, e, in) ==
    LET h == AsHTTPError(e)
    IN  IF e # NoErr /\ h.ok /\ h.httpErr.StatusCode = StatusTooManyRequests
        THEN Min(h.httpErr.Seconds, maxBackoffSeconds(in)) * 1000
        ELSE computed

\* the duration Verify sleeps before the next attempt, in milliseconds:
\* computed is b.Duration(), e the error of the attempt before
backoffDuration(computed, e, in) ==
    LET h == AsHTTPError(e)
    IN  IF e # NoErr /\ h.ok /\ h.httpErr.Seconds * 1000 > computed
        THEN Min(h.httpErr.Seconds, maxBackoffSeconds(in)) * 1000
        ELSE computed

\* the return of Verify without the made-up response
StampOnly(resp, n) ==
    IF resp.isNil THEN NilOutput
    ELSE [resp EXCEPT !.attempt = n]

\* the return of Verify with a made-up response that reports success
StampMadeUpSuccess(resp, n) ==
    IF resp.isNil THEN VerifyOutput(TRUE, VERIFY_CODES_COUNT, "", n)
    ELSE [resp EXCEPT !.attempt = n]

\* what Verify returns after the loop: the response of the last attempt,
\* or a made-up one, stamped with the loop counter
Stamp(resp, n) ==
    IF resp.isNil THEN VerifyOutput(FALSE, VERIFY_CODES_COUNT, "", n)
    ELSE [resp EXCEPT !.attempt = n]

\* how the loop of Verify takes the error of a doVerify call
Classify(e) ==
    IF e = NoErr THEN "ok"
    ELSE IF IsRetriable(e) THEN "retriable"
    ELSE "terminal"

\* ------------------------------------------------------------------------
\* NewClient
\* ------------------------------------------------------------------------
GlobalDomain == "api.privatecaptcha.com"
DefaultFormField == "private-captcha-solution"
errEmptyAPIKey == [type |-> "errEmptyAPIKey"]

\* a nil *Client
NilClient == [isNil |-> TRUE]

\* a Domain is a sequence of pieces of text: a scheme "http://" or
\* "https://", a host, a slash "/", a segment of a path
\* strings.HasPrefix(domain, "http"): the first piece starts with "http"
HasSchemePrefix(domain) ==
    domain # << >> /\ Head(domain) \in {"http://", "https://", "httpbin.org"}

\* TrimPrefix that leaves the prefix where it is
TrimPrefixKeeps(domain, prefix) == domain

\* strings.TrimPrefix(domain, prefix)
TrimPrefix(domain, prefix) ==
    IF domain # << >> /\ Head(domain) = prefix THEN Tail(domain) ELSE domain

RECURSIVE TrimLeftSlashes(_)
TrimLeftSlashes(domain) ==
    IF domain # << >> /\ Head(domain) = "/"
    THEN TrimLeftSlashes(Tail(domain)) ELSE domain

RECURSIVE TrimRightSlashes(_)
TrimRightSlashes(domain) ==
    IF domain # << >> /\ domain[Len(domain)] = "/"
    THEN TrimRightSlashes(SubSeq(domain, 1, Len(domain) - 1)) ELSE domain

\* strings.Trim(domain, "/")
TrimSlashes(domain) == TrimRightSlashes(TrimLeftSlashes(domain))

\* the values of Configuration a caller passes to NewClient
Domains == { << >>, <<"https://", "example.com", "/">>, <<"bad host">> }
FormFields == { "", "my-custom-captcha-field" }
FailedStatusCodes == { 0, 418 }

\* every Configuration without an API key, and three with one: the
\* defaults, a domain that is no host name, and every field set
Configurations ==
    [APIKey : {""}, Domain : Domains, FormField : FormFields,
     FailedStatusCode : FailedStatusCodes] \cup
    { [APIKey |-> "pc_abcdef", Domain |-> << >>, FormField |-> "",
       FailedStatusCode |-> 0],
      [APIKey |-> "pc_abcdef", Domain |-> <<"bad host">>, FormField |-> "",
       FailedStatusCode |-> 0],
      [APIKey |-> "pc_abcdef", Domain |-> <<"https://", "example.com", "/">>,
       FormField |-> "my-custom-captcha-field", FailedStatusCode |-> 418] }

\* NewClient that does not test the API key
NewClientNoKeyCheck(cfg) ==
    LET domain == IF cfg.Domain = << >> THEN <<GlobalDomain>>
                  ELSE IF HasSchemePrefix(cfg.Domain)
                  THEN TrimPrefix(TrimPrefix(cfg.Domain, "https://"), "http://")
                  ELSE cfg.Domain
    IN  [client |-> [isNil |-> FALSE,
                     endpoint |-> <<"https://">> \o TrimSlashes(domain) \o <<"/verify">>,
                     apiKey |-> cfg.APIKey,
                     formField |-> IF cfg.FormField = "" THEN DefaultFormField
                                   ELSE cfg.FormField,
                     failedStatusCode |-> IF cfg.FailedStatusCode = 0
                                          THEN StatusForbidden
                                          ELSE cfg.FailedStatusCode],
         err |-> NoErr]

\* NewClient(cfg): the client and the error it returns
NewClient(cfg) ==
    IF cfg.APIKey = "" THEN [client |-> NilClient, err |-> errEmptyAPIKey]
    ELSE LET domain == IF cfg.Domain = << >> THEN <<GlobalDomain>>
                       ELSE IF HasSchemePrefix(cfg.Domain)
                       THEN TrimPrefix(TrimPrefix(cfg.Domain, "https://"), "http://")
                       ELSE cfg.Domain
         IN  [client |-> [isNil |-> FALSE,
                          endpoint |-> <<"https://">> \o TrimSlashes(domain) \o <<"/verify">>,
                          apiKey |-> cfg.APIKey,
                          formField |-> IF cfg.FormField = "" THEN DefaultFormField
                                        ELSE cfg.FormField,
                          failedStatusCode |-> IF cfg.FailedStatusCode = 0
                                               THEN StatusForbidden
                                               ELSE cfg.FailedStatusCode],
              err |-> NoErr]

\* http.NewRequestWithContext accepts the endpoint: its host is a host name
EndpointValid(endpoint) == \A k \in DOMAIN endpoint : endpoint[k] # "bad host"

\* ------------------------------------------------------------------------
\* VerifyRequest and VerifyFunc
\* ------------------------------------------------------------------------
\* the form of an inbound request: the length of the value of each field
FormFieldNames == { DefaultFormField, "my-custom-captcha-field" }
Forms == { form \in [FormFieldNames -> {0, 4}] :
             \E name \in FormFieldNames : form[name] = 0 }

\* no inbound request: Verify is called directly
NoRequest == [present |-> FALSE]
Request(form) == [present |-> TRUE, form |-> form]

\* r.FormValue(field), as the length of the value
FormValue(form, field) == form[field]

\* the solution with the default field name in place of the configured one
solutionFromDefaultField(c, form) == FormValue(form, DefaultFormField)

\* solution, as VerifyRequest reads it
solution(c, form) == FormValue(form, c.formField)

\* the error VerifyRequest makes of a failed verification
VerificationFailed(text) == [type |-> "verificationFailed", text |-> text]

\* the panic of a nil dereference
NilDereference == [type |-> "panic"]

\* what VerifyRequest returns for the output and error of Verify
VerifyRequestResult(output, e) ==
    IF e # NoErr THEN e
    ELSE IF output.isNil THEN NilDereference
    ELSE IF ~output.Success THEN VerificationFailed(ErrorText(output))
    ELSE NoErr

\* http.StatusText
StatusText(code) ==
    CASE code = 403 -> "Forbidden"
      [] code = 418 -> "I'm a teapot"
      [] OTHER -> ""

\* what the handler of VerifyFunc has not yet done
NotServed == [next |-> FALSE, status |-> 0, body |-> << >>]

\* the handler that answers 403 whatever the client is configured with
ServeAlwaysForbidden(c, e) ==
    IF e # NoErr
    THEN [next |-> FALSE, status |-> StatusForbidden,
          body |-> <<StatusText(StatusForbidden), "\n">>]
    ELSE [next |-> TRUE, status |-> 0, body |-> << >>]

\* the handler of VerifyFunc for the error e of VerifyRequest: http.Error
\* or next.ServeHTTP
Serve(c, e) ==
    IF e # NoErr
    THEN [next |-> FALSE, status |-> c.failedStatusCode,
          body |-> <<StatusText(c.failedStatusCode), "\n">>]
    ELSE [next |-> TRUE, status |-> 0, body |-> << >>]

VARIABLES
    config,     \* the Configuration NewClient was called with
    client,     \* the Client NewClient returned, or nil
    clientErr,  \* the error NewClient returned
    entry,      \* how the call was made: Verify, VerifyRequest, VerifyFunc
    request,    \* the inbound request of VerifyRequest or VerifyFunc
    reqErr,     \* at done, the error VerifyRequest returned
    served,     \* at done, what the handler of VerifyFunc did
    pc,         \* where the Verify call is: idle, attempt, sleep, done
    input,      \* the VerifyInput of the call
    ctxDone,    \* whether the context of the call is cancelled
    i,          \* the loop counter of Verify
    b,          \* the attempt counter of the Backoff b
    response,   \* the variable response of Verify; at done, the outcome returned
    err,        \* the variable err of Verify; at done, the error returned
    calls,      \* history: number of doVerify calls of this Verify call
    sleeps,     \* history: the durations slept by this Verify call, in ms
    outcomes,   \* history: how each doVerify call of this Verify call ended
    lastReply,  \* history: what the last doVerify call met
    hinted,     \* history: some reply of this call carried a Retry-After header
    lastComputed, \* history: what b.Duration() returned for the last sleep, in ms
    cancelPoint, \* history: where the call was and how many doVerify calls it
                \* had made when its context was cancelled
    requests,   \* history: the requests this Verify call handed to the transport
    strings,    \* two values of VerifyCode and what String returned for them
    procs,      \* the calls that run at the same time on the client
    backoffs    \* the attempt counters of the Backoff objects of these calls

vars == << config, client, clientErr, entry, request, reqErr, served, pc, input, ctxDone, i, b, response, err,
           calls, sleeps, outcomes, lastReply, hinted, lastComputed,
           cancelPoint, requests, strings, procs, backoffs >>

\* the variables of the single call
callVars == << entry, request, reqErr, served, pc, input, ctxDone, i, b,
               response, err, calls, sleeps, outcomes, lastReply, hinted,
               lastComputed, cancelPoint, requests >>

\* no VerifyCode has been rendered
NoStrings == [codes |-> <<0, 0>>, texts |-> <<"", "">>, rendered |-> FALSE]

\* no calls run at the same time
NoProcs == << >>
NoBackoffs == << >>

\* the context of the call is not cancelled
NotCancelled == [pc |-> "none", calls |-> 0]

NoReply == [kind |-> "none"]

\* no call has been made on the client
NoCall ==
    /\ entry = "none"
    /\ request = NoRequest
    /\ reqErr = NoErr
    /\ served = NotServed
    /\ pc = "idle"
    /\ input = [Solution |-> 0, MaxBackoffSeconds |-> 0, Attempts |-> 0]
    /\ ctxDone = FALSE
    /\ i = 0
    /\ b = 0
    /\ response = NilOutput
    /\ err = NoErr
    /\ calls = 0
    /\ sleeps = << >>
    /\ outcomes = << >>
    /\ lastReply = NoReply
    /\ hinted = FALSE
    /\ lastComputed = 0
    /\ cancelPoint = NotCancelled
    /\ requests = << >>

Init ==
    /\ config \in Configurations
    /\ client = NewClient(config).client
    /\ clientErr = NewClient(config).err
    /\ NoCall
    /\ strings = NoStrings
    /\ procs = NoProcs
    /\ backoffs = NoBackoffs

\* the start of a call made as who for the request r with the input in
StartCall(who, r, in) ==
    /\ pc = "idle"
    /\ ~client.isNil
    /\ entry' = who
    /\ request' = r
    /\ input' = in
    /\ ctxDone' = FALSE
    /\ i' = 0
    /\ b' = 0
    /\ response' = NilOutput
    /\ calls' = 0
    /\ sleeps' = << >>
    /\ outcomes' = << >>
    /\ lastReply' = NoReply
    /\ hinted' = FALSE
    /\ lastComputed' = 0
    /\ cancelPoint' = NotCancelled
    /\ requests' = << >>
    /\ UNCHANGED << strings, procs, backoffs, config, client, clientErr >>

\* the return of Verify with output and e to who called it: VerifyRequest
\* makes its error of them, the handler of VerifyFunc serves
Return(who, output, e) ==
    /\ reqErr' = IF who = "Verify" THEN NoErr ELSE VerifyRequestResult(output, e)
    /\ served' = IF who = "VerifyFunc"
                 THEN Serve(client, VerifyRequestResult(output, e))
                 ELSE NotServed

\* Verify, called as who, without the test for the empty solution
VerifyAsNoEmptyCheck(who, r, in) ==
    /\ StartCall(who, r, in)
    /\ pc' = IF SleepsFirst(0) THEN "sleep" ELSE "attempt"
    /\ err' = NoErr
    /\ reqErr' = NoErr
    /\ served' = NotServed

\* Verify, called as who: the empty solution is rejected, otherwise the loop
\* is entered
VerifyAs(who, r, in) ==
    /\ StartCall(who, r, in)
    /\ IF in.Solution = 0
       THEN /\ pc' = "done"
            /\ err' = errEmtpySolution
            /\ Return(who, NilOutput, errEmtpySolution)
       ELSE /\ pc' = IF SleepsFirst(0) THEN "sleep" ELSE "attempt"
            /\ err' = NoErr
            /\ reqErr' = NoErr
            /\ served' = NotServed

\* Verify without the test for the empty solution
VerifyNoEmptyCheck(in) == VerifyAsNoEmptyCheck("Verify", NoRequest, in)

\* Verify is called by the user of the client
Verify(in) == VerifyAs("Verify", NoRequest, in)

\* the VerifyInput VerifyRequest makes of the form of a request
RequestInput(form) ==
    [Solution |-> solution(client, form), MaxBackoffSeconds |-> 0, Attempts |-> 0]

\* VerifyRequest is called by the user of the client
VerifyRequest(form) ==
    VerifyAs("VerifyRequest", Request(form), RequestInput(form))

\* the handler returned by VerifyFunc is called with a request
VerifyFunc(form) ==
    VerifyAs("VerifyFunc", Request(form), RequestInput(form))

\* what a request of this call can meet now
Replies ==
    IF client.isNil THEN {}
    ELSE IF ~EndpointValid(client.endpoint) THEN {ReqFail}
    ELSE IF ctxDone THEN {DoFail("canceled")}
    ELSE {DoFail("net")} \cup HTTPReplies

\* one iteration of the loop from the doVerify call on: the call, the test
\* for a retriable error, the increment and test of the loop counter and,
\* when the loop ends, the return of Verify
Attempt(reply) ==
    /\ pc = "attempt"
    /\ reply \in Replies
    /\ LET r == doVerify(reply)
       IN  /\ calls' = calls + 1
           /\ outcomes' = Append(outcomes, Classify(r.err))
           /\ lastReply' = reply
           /\ requests' = IF reply.kind = "reqfail" THEN requests
                          ELSE Append(requests, NewRequest(client, input.Solution))
           /\ hinted' = (hinted \/ (reply.kind = "http" /\ reply.retryAfter # << >>))
           /\ err' = errAfter(err, r.err)
           /\ IF ShouldRetry(r.err)
              THEN /\ i' = i + 1
                   /\ IF LoopContinues(i + 1, input)
                      THEN /\ pc' = IF SleepsFirst(i + 1) THEN "sleep" ELSE "attempt"
                           /\ response' = r.response
                           /\ UNCHANGED << reqErr, served >>
                      ELSE /\ pc' = "done"
                           /\ response' = Stamp(r.response, i + 1)
                           /\ Return(entry, Stamp(r.response, i + 1),
                                     errAfter(err, r.err))
              ELSE /\ i' = i
                   /\ pc' = "done"
                   /\ response' = Stamp(r.response, i)
                   /\ Return(entry, Stamp(r.response, i), errAfter(err, r.err))
    /\ UNCHANGED << strings, procs, backoffs, config, client, clientErr, entry, request, input, ctxDone,
                    b, sleeps, lastComputed, cancelPoint >>

\* time.Sleep that does not return
SleepForever(jitter) ==
    /\ pc = "sleep"
    /\ UNCHANGED vars

\* the head of an iteration after the first: b.Duration(), the retry hint
\* of the last error, time.Sleep
Sleep(jitter) ==
    /\ pc = "sleep"
    /\ LET computed == ForAttempt(b, maxBackoffSeconds(input) * 1000, jitter)
       IN  /\ sleeps' = Append(sleeps, backoffDuration(computed, err, input))
           /\ lastComputed' = computed
    /\ b' = b + 1
    /\ pc' = "attempt"
    /\ UNCHANGED << requests, strings, procs, backoffs, config, client, clientErr, entry, request, reqErr, served,
                    input, ctxDone, i, response, err,
                    calls, outcomes, lastReply, hinted, cancelPoint >>

\* the caller cancels the context of the running call
Cancel ==
    /\ pc \in {"attempt", "sleep"}
    /\ ~ctxDone
    /\ ctxDone' = TRUE
    /\ cancelPoint' = [pc |-> pc, calls |-> calls]
    /\ UNCHANGED << requests, strings, procs, backoffs, config, client, clientErr, entry, request, reqErr, served,
                    pc, input, i, b, response, err,
                    calls, sleeps, outcomes, lastReply, hinted, lastComputed >>

\* the caller is done with what the call returned: nothing of a call
\* outlives it, the next call on the client starts afresh
Forget ==
    /\ pc = "done"
    /\ pc' = "idle"
    /\ entry' = "none"
    /\ request' = NoRequest
    /\ reqErr' = NoErr
    /\ served' = NotServed
    /\ input' = [Solution |-> 0, MaxBackoffSeconds |-> 0, Attempts |-> 0]
    /\ ctxDone' = FALSE
    /\ i' = 0
    /\ b' = 0
    /\ response' = NilOutput
    /\ err' = NoErr
    /\ calls' = 0
    /\ sleeps' = << >>
    /\ outcomes' = << >>
    /\ lastReply' = NoReply
    /\ hinted' = FALSE
    /\ lastComputed' = 0
    /\ cancelPoint' = NotCancelled
    /\ requests' = << >>
    /\ UNCHANGED << strings, procs, backoffs, config, client, clientErr >>

Next ==
    \/ \E in \in VerifyInputs : Verify(in)
    \/ \E form \in Forms : VerifyRequest(form)
    \/ \E form \in Forms : VerifyFunc(form)
    \/ \E reply \in Replies : Attempt(reply)
    \/ \E jitter \in 0 .. JitterSteps - 1 : Sleep(jitter)
    \/ Cancel
    \/ Forget

Spec == Init /\ [][Next]_vars

TypeOK ==
    /\ config \in Configurations
    /\ entry \in {"none", "Verify", "VerifyRequest", "VerifyFunc"}
    /\ pc \in {"idle", "attempt", "sleep", "done"}
    /\ input \in VerifyInputs
    /\ i \in 0 .. DefaultAttempts + MaxAttemptsInput
    /\ calls \in 0 .. DefaultAttempts + MaxAttemptsInput

\* ------------------------------------------------------------------------
\* Properties
\* ------------------------------------------------------------------------
\* a Verify call with a non-empty solution has returned
Returned == pc = "done" /\ input.Solution # 0

\* how the last doVerify call of the running Verify call ended
LastOutcome == outcomes[Len(outcomes)]

\* the ceiling of the running call, in seconds
Ceiling == IF input.MaxBackoffSeconds > 0 THEN input.MaxBackoffSeconds ELSE 4

\* the statuses the specification names retriable
SpecRetriable == {408, 425, 429, 500, 502, 503, 504}

\* C1: Verify with an empty solution returns a nil outcome and the
\* empty-solution error and makes no transport call and no sleep, for every
\* Attempts and MaxBackoffSeconds.
C1_EmptySolutionRejected ==
    (pc # "idle" /\ input.Solution = 0) =>
        /\ pc = "done"
        /\ response = NilOutput
        /\ err = errEmtpySolution
        /\ calls = 0
        /\ sleeps = << >>

C1_Witness ==
    /\ pc = "done"
    /\ input.Solution = 0
    /\ input.Attempts > 1
    /\ input.MaxBackoffSeconds > 0
    /\ err = errEmtpySolution

\* C2: a transport call that meets a status from 300 on ends retriable
\* exactly when the status is one of 408, 425, 429, 500, 502, 503, 504;
\* every other such status ends the call with the plain HTTPError of that
\* status, not marked retriable.
C2_StatusClassification ==
    (calls > 0 /\ lastReply.kind = "http" /\ lastReply.status >= 300) =>
        /\ LastOutcome = "retriable" <=> lastReply.status \in SpecRetriable
        /\ lastReply.status \notin SpecRetriable =>
              /\ LastOutcome = "terminal"
              /\ pc = "done"
              /\ err = HTTPError(lastReply.status, 0)

C2_Witness ==
    /\ calls > 0
    /\ lastReply.kind = "http"
    /\ lastReply.status = 501
    /\ LastOutcome = "terminal"

\* C3: with a non-empty solution and Attempts = N > 1, when every transport
\* call fails retriably, Verify makes exactly N transport calls, returns an
\* error, and the attempt counter of the outcome is N.
C3_ExhaustionAfterNAttempts ==
    (Returned /\ input.Attempts > 1
       /\ \A k \in DOMAIN outcomes : outcomes[k] = "retriable") =>
        /\ calls = input.Attempts
        /\ err # NoErr
        /\ ~response.isNil
        /\ response.attempt = input.Attempts

C3_Witness ==
    /\ Returned
    /\ input.Attempts = 3
    /\ calls = 3
    /\ \A k \in DOMAIN outcomes : outcomes[k] = "retriable"

\* C4: with a non-empty solution and Attempts = 1, Verify makes exactly one
\* transport call and never sleeps, whatever the call returns.
C4_SingleAttempt ==
    (pc # "idle" /\ input.Solution # 0 /\ input.Attempts = 1) =>
        /\ pc \in {"attempt", "done"}
        /\ sleeps = << >>
        /\ pc = "attempt" => calls = 0
        /\ pc = "done" => calls = 1

C4_Witness ==
    /\ Returned
    /\ input.Attempts = 1
    /\ calls = 1
    /\ LastOutcome = "retriable"

\* C5 (as claimed): whenever Verify has returned for a non-empty solution,
\* the attempt counter of the outcome is the number of transport calls made.
C5_AttemptCounterIsCallCount ==
    Returned => response.attempt = calls

\* the state a terminal failure (a status from 300 on outside the retriable
\* set) leaves: Verify has returned the HTTPError of that status
C6_TerminalState ==
    (calls > 0 /\ lastReply.kind = "http" /\ lastReply.status >= 300
       /\ lastReply.status \notin SpecRetriable) =>
        /\ pc = "done"
        /\ calls = Len(outcomes)
        /\ Len(sleeps) = calls - 1
        /\ err = HTTPError(lastReply.status, 0)
        /\ GetStatusCode(err) = [code |-> lastReply.status, ok |-> TRUE]

LastWas2xxSuccess ==
    /\ lastReply.kind = "http"
    /\ lastReply.status >= 200
    /\ lastReply.status < 300
    /\ lastReply.body.json # "garbage"

\* C7 (as claimed): when the first k-1 transport calls fail retriably and
\* the k-th meets a 2xx status with a decodable body, Verify returns the
\* decoded outcome and a nil error after exactly k calls; and a nil error is
\* returned only when the last transport call was such a success.
C7_SuccessAfterRetries ==
    Returned =>
        /\ LastWas2xxSuccess =>
              /\ err = NoErr
              /\ calls = Len(outcomes)
              /\ \A k \in 1 .. calls - 1 : outcomes[k] = "retriable"
              /\ lastReply.body.json = "object"
              /\ ~response.isNil
              /\ response.Success = lastReply.body.success
              /\ response.Code = lastReply.body.code
              /\ response.requestID = lastReply.traceID
        /\ err = NoErr => LastWas2xxSuccess

\* C8: the error Verify returns is never the retriable wrapper: it is the
\* unwrapped cause of the last transport call (the network error, the
\* decode error, or the HTTPError with the status of that call).
C8_ErrorIsUnwrappedCause ==
    /\ err.type # "retriableError"
    /\ Returned =>
          CASE lastReply.kind = "reqfail" -> err = ForeignError("request")
            [] lastReply.kind = "dofail" -> err = ForeignError(lastReply.why)
            [] lastReply.kind = "http" /\ lastReply.status >= 300 ->
                  /\ err.type = "HTTPError"
                  /\ err.StatusCode = lastReply.status
            [] lastReply.kind = "http" /\ lastReply.status < 300
                  /\ lastReply.body.json = "garbage" -> err = ForeignError("json")
            [] OTHER -> err = NoErr

C8_Witness ==
    /\ Returned
    /\ calls = 3
    /\ LastOutcome = "retriable"
    /\ lastReply.kind = "http"
    /\ lastReply.status = 503
    /\ err = HTTPError(503, 0)

\* the transport call that met reply produced no outcome
NoOutcomeFrom(reply) ==
    \/ reply.kind # "http"
    \/ reply.status >= 300
    \/ reply.body.json = "null"

C10_SleepAtMostCeiling ==
    \A k \in DOMAIN sleeps : sleeps[k] <= Ceiling * 1000

C10_Witness ==
    /\ pc = "attempt"
    /\ input.MaxBackoffSeconds = 1
    /\ Len(sleeps) = 2
    /\ err = HTTPError(429, 10)
    /\ sleeps[2] = 1000

\* C11 (as claimed): in a Verify call in which no reply carries a retry
\* hint, the sleeps are non-decreasing: the delay before attempt k+1 is
\* never shorter than the delay before attempt k, for every jitter.
C11_SleepsMonotone ==
    ~hinted => \A k \in 1 .. Len(sleeps) - 1 : sleeps[k] <= sleeps[k + 1]

\* C11 (amended): in a Verify call in which no reply carries a retry hint,
\* the k-th sleep lasts at least 250 ms and at most
\* min(ceiling, 250 ms * 2^(k-1)), a bound that does not decrease with k.
C11_SleepsWithinGrowingBound ==
    ~hinted =>
        \A k \in DOMAIN sleeps :
            /\ sleeps[k] >= 250
            /\ sleeps[k] <= Ceiling * 1000
            /\ sleeps[k] <= 250 * 2 ^ (k - 1)

C11_Witness ==
    /\ ~hinted
    /\ Len(sleeps) = 3
    /\ sleeps[2] > sleeps[3]

\* the seconds a Retry-After header value asks for
HintSeconds(header) ==
    CASE header = <<"0">> -> 0
      [] header = <<"1">> -> 1
      [] header = <<"1", "0">> -> 10
      [] header = <<"-", "1">> -> -1

\* Verify has just slept after a 429 whose Retry-After header is a number
SleptAfterHinted429 ==
    /\ pc = "attempt"
    /\ Len(sleeps) > 0
    /\ lastReply.kind = "http"
    /\ lastReply.status = 429
    /\ lastReply.retryAfter \in { <<"0">>, <<"1">>, <<"1", "0">>, <<"-", "1">> }

\* C12: after a 429 with a Retry-After hint of h seconds, the sleep is
\* min(h, ceiling) seconds when h * 1000 ms exceeds the computed backoff
\* delay (1 second for Retry-After: 10 under a ceiling of 1 second), and the
\* computed delay unchanged otherwise.
C12_HintOverridesWhenLarger ==
    SleptAfterHinted429 =>
        LET h == HintSeconds(lastReply.retryAfter)
            slept == sleeps[Len(sleeps)]
        IN  /\ h * 1000 > lastComputed =>
                  slept = (IF h < Ceiling THEN h ELSE Ceiling) * 1000
            /\ h * 1000 <= lastComputed => slept = lastComputed
            /\ (h = 10 /\ Ceiling = 1) => slept = 1000

C12_Witness ==
    /\ SleptAfterHinted429
    /\ lastReply.retryAfter = <<"1", "0">>
    /\ input.MaxBackoffSeconds = 1
    /\ lastComputed = 250
    /\ sleeps[Len(sleeps)] = 1000

\* C13 (as claimed): when the context is cancelled while Verify sleeps
\* between attempts, no transport call is started after the cancellation
\* and Verify returns a cancellation error.
C13_CancelDuringSleepAborts ==
    cancelPoint.pc = "sleep" =>
        /\ calls = cancelPoint.calls
        /\ pc = "done" => err = ForeignError("canceled")

\* the last transport call decoded a payload that reports success
PayloadReportsSuccess ==
    /\ lastReply.kind = "http"
    /\ lastReply.status < 300
    /\ lastReply.body.json = "object"
    /\ lastReply.body.success

\* C14 (as claimed): the Success flag of the outcome Verify returns is true
\* exactly when the decoded payload reports success and the Code of the
\* outcome is VerifyNoError.
C14_SuccessIffPayloadAndNoError ==
    Returned =>
        (response.Success <=> (PayloadReportsSuccess /\ response.Code = 0))

\* C14 (amended): the Success flag of the outcome Verify returns is true
\* exactly when the last transport call decoded a payload that reports
\* success, whatever its code.
C14_SuccessIffPayload ==
    Returned => (response.Success <=> PayloadReportsSuccess)

C14_Witness ==
    /\ Returned
    /\ response.Success
    /\ response.Code = 10
    /\ lastReply.status = 200

\* C15: a 2xx reply whose body decodes to success=false with a code c is
\* not an error: Verify returns a nil error and an outcome with
\* Success = false and Code = c, and makes no further attempt.
C15_RejectionIsNotAnError ==
    (calls > 0 /\ lastReply.kind = "http"
       /\ lastReply.status >= 200 /\ lastReply.status < 300
       /\ lastReply.body.json = "object" /\ ~lastReply.body.success) =>
        /\ pc = "done"
        /\ err = NoErr
        /\ ~response.isNil
        /\ response.Success = FALSE
        /\ response.Code = lastReply.body.code
        /\ calls = Len(outcomes)

C15_Witness ==
    /\ Returned
    /\ calls = 2
    /\ lastReply.kind = "http"
    /\ lastReply.status = 200
    /\ lastReply.body = [json |-> "object", success |-> FALSE, code |-> 4]
    /\ err = NoErr
    /\ response.Code = 4

\* C16 (as claimed): VerifyRequest returns an error whenever Verify
\* returns one or the outcome has success=false or a code other than the
\* no-error value; it returns nil only for a full success.
C16_RequestErrorUnlessFullSuccess ==
    (pc = "done" /\ entry = "VerifyRequest") =>
        /\ (err # NoErr \/ ~response.Success \/ response.Code # 0) =>
              reqErr # NoErr
        /\ reqErr = NoErr =>
              (err = NoErr /\ response.Success /\ response.Code = 0)

\* the failure status the client was configured with
ConfiguredFailureStatus ==
    IF config.FailedStatusCode = 0 THEN 403 ELSE config.FailedStatusCode

\* C17: per request the handler of VerifyFunc does one of two things: when
\* VerifyRequest returns nil it calls the downstream handler and writes
\* nothing; otherwise it does not call the downstream handler and answers
\* with the configured failure status (403 when none is set) and the
\* standard text of that status.
C17_HandlerServesOrRejects ==
    IF pc = "done" /\ entry = "VerifyFunc"
    THEN IF reqErr = NoErr
         THEN served = [next |-> TRUE, status |-> 0, body |-> << >>]
         ELSE /\ served.next = FALSE
              /\ served.status = ConfiguredFailureStatus
              /\ served.body =
                    << (IF served.status = 403 THEN "Forbidden" ELSE "I'm a teapot"),
                       "\n" >>
    ELSE served = [next |-> FALSE, status |-> 0, body |-> << >>]

C17_Witness ==
    /\ pc = "done"
    /\ entry = "VerifyFunc"
    /\ calls > 0
    /\ served.next = FALSE
    /\ served.status = 418

\* the request carries the solution under the default field name only
SolutionUnderDefaultFieldOnly ==
    /\ request.present
    /\ request.form["private-captcha-solution"] # 0
    /\ request.form["my-custom-captcha-field"] = 0

\* C18: VerifyRequest takes the solution from the configured form field
\* only: on a client with a custom FormField, a request that carries the
\* solution under the default field name is rejected with the
\* empty-solution error, without a transport call.
C18_CustomFieldOnly ==
    (entry = "VerifyRequest" /\ config.FormField = "my-custom-captcha-field"
       /\ SolutionUnderDefaultFieldOnly) =>
        /\ pc = "done"
        /\ reqErr = errEmtpySolution
        /\ calls = 0

C18_Witness ==
    /\ entry = "VerifyRequest"
    /\ config.FormField = "my-custom-captcha-field"
    /\ SolutionUnderDefaultFieldOnly
    /\ reqErr = errEmtpySolution

\* C19: NewClient with an empty APIKey returns the empty-API-key error and
\* a nil client, whatever the other fields of the configuration are; with
\* an APIKey it returns a client and a nil error.
C19_APIKeyRequired ==
    IF config.APIKey = ""
    THEN client = [isNil |-> TRUE] /\ clientErr = errEmptyAPIKey
    ELSE ~client.isNil /\ clientErr = NoErr

C19_Witness ==
    /\ config.APIKey = ""
    /\ config.FormField # ""
    /\ config.FailedStatusCode = 418
    /\ config.Domain # << >>
    /\ client.isNil
    /\ clientErr = errEmptyAPIKey

\* the last transport call met a 2xx status with a body that does not decode
DecodeFailed ==
    /\ calls > 0
    /\ lastReply.kind = "http"
    /\ lastReply.status >= 200
    /\ lastReply.status < 300
    /\ lastReply.body.json = "garbage"

\* C20: a decode failure of a 2xx body is retriable: Verify retries after
\* it while attempts remain, and when the last attempt ends in a decode
\* failure Verify returns the decode error and the partial outcome of that
\* attempt, whose RequestID is the trace identifier of that response.
C20_DecodeFailureRetried ==
    DecodeFailed =>
        LET N == IF input.Attempts > 0 THEN input.Attempts ELSE 5
        IN  /\ LastOutcome = "retriable"
            /\ calls < N => pc \in {"sleep", "attempt"}
            /\ calls >= N => pc = "done"
            /\ pc = "done" =>
                  /\ err = ForeignError("json")
                  /\ ~response.isNil
                  /\ RequestID(response) = lastReply.traceID

C20_Witness ==
    /\ Returned
    /\ DecodeFailed
    /\ calls = 3
    /\ lastReply.traceID = "t1"
    /\ RequestID(response) = "t1"
    /\ err = ForeignError("json")

\* the attempts and the ceiling the specification gives for the input
SpecAttempts == IF input.Attempts > 0 THEN input.Attempts ELSE 5

\* C21: Verify replaces a non-positive MaxBackoffSeconds by the ceiling of
\* 4 seconds, so that sleeps still occur (none is shorter than the minimum
\* delay), and a non-positive Attempts by 5; positive values are used as
\* given: the loop makes that many calls when every call fails retriably,
\* and a hint above the ceiling is cut to the ceiling.
C21_DefaultsReplaceNonPositive ==
    /\ calls <= SpecAttempts
    /\ (Returned /\ \A k \in DOMAIN outcomes : outcomes[k] = "retriable") =>
          (calls = SpecAttempts /\ Len(sleeps) = SpecAttempts - 1)
    /\ \A k \in DOMAIN sleeps :
          sleeps[k] >= 250 /\ sleeps[k] <= Ceiling * 1000
    /\ (pc = "attempt" /\ Len(sleeps) > 0 /\ lastReply.kind = "http"
          /\ lastReply.status = 429 /\ lastReply.retryAfter = <<"1", "0">>) =>
          sleeps[Len(sleeps)] = Min(10, Ceiling) * 1000

C21_Witness ==
    /\ Returned
    /\ input.MaxBackoffSeconds = 0
    /\ input.Attempts = 0
    /\ calls = 5
    /\ Len(sleeps) = 4
    /\ sleeps[4] = 4000

\* C23: OK() on the outcome Verify returns is true exactly when the outcome
\* is not nil, its Success flag is true and its Code is VerifyNoError; on
\* the nil outcome returned for an empty solution it is false.
C23_OKIffFullSuccess ==
    pc = "done" =>
        /\ OK(response) <=>
              (~response.isNil /\ response.Success /\ response.Code = 0)
        /\ input.Solution = 0 => (response.isNil /\ ~OK(response))

C23_Witness ==
    /\ Returned
    /\ response.Success
    /\ response.Code # 0
    /\ ~OK(response)

\* C25: within one Verify call transport calls and sleeps alternate: no
\* sleep before the first call, one sleep between two calls, no sleep after
\* the last call, and the result of every call made is known before the
\* next step.
C25_CallsAndSleepsAlternate ==
    /\ Len(outcomes) = calls
    /\ pc = "attempt" => Len(sleeps) = calls
    /\ pc = "sleep" => (calls > 0 /\ Len(sleeps) = calls - 1)
    /\ (pc = "done" /\ calls > 0) => Len(sleeps) = calls - 1
    /\ (pc = "done" /\ calls = 0) => sleeps = << >>

C25_Witness ==
    /\ pc = "done"
    /\ calls = 3
    /\ Len(sleeps) = 2

\* C26 (as claimed): after a transport call that ends in a decode failure
\* the loop has stopped: no further attempt follows.
C26_DecodeFailureStopsLoop ==
    DecodeFailed => pc = "done"

\* C26: a decode failure does not stop the loop while attempts remain: the
\* loop ends on it only when it was the last attempt allowed; a terminal
\* error ends the loop at once.
C26_DecodeFailureStopsOnlyWhenExhausted ==
    /\ (DecodeFailed /\ pc = "done") => (calls = SpecAttempts /\ i = SpecAttempts)
    /\ (DecodeFailed /\ calls < SpecAttempts) => pc # "done"
    /\ (calls > 0 /\ LastOutcome = "terminal") => pc = "done"

C26_Witness ==
    /\ DecodeFailed
    /\ pc = "sleep"
    /\ calls = 1
    /\ err = ForeignError("json")

\* the last transport call met a 429
LastWas429 ==
    /\ calls > 0
    /\ lastReply.kind = "http"
    /\ lastReply.status = 429

\* C27 (as claimed): the HTTPError of a 429 whose Retry-After header is
\* absent or no number carries a value for "no hint" that is not zero.
C27_NoHintDistinctFromZero ==
    (LastWas429 /\ lastReply.retryAfter \in { << >>, <<"a">> }) =>
        (err.type = "HTTPError" /\ err.Seconds # 0)

\* the header value gives no hint: absent, no integer, or negative
Unusable(header) ==
    \/ header = << >>
    \/ header = <<"a">>
    \/ header = <<"-", "1">>

\* C28: the Retry-After header is read for status 429 only, and a header
\* that is absent, no integer or negative changes neither the error nor the
\* delay: the call ends with a retriable HTTPError of status 429 and the
\* next sleep is the computed backoff.
C28_UnusableHintIgnored ==
    /\ (LastWas429 /\ Unusable(lastReply.retryAfter)) =>
          /\ LastOutcome = "retriable"
          /\ err.type = "HTTPError"
          /\ err.StatusCode = 429
    /\ (pc = "attempt" /\ Len(sleeps) > 0 /\ lastReply.kind = "http"
          /\ (lastReply.status # 429 \/ Unusable(lastReply.retryAfter))) =>
          sleeps[Len(sleeps)] = lastComputed
    /\ (calls > 0 /\ lastReply.kind = "http" /\ lastReply.status # 429
          /\ err.type = "HTTPError") =>
          err.Seconds = 0

C28_Witness ==
    /\ pc = "attempt"
    /\ Len(sleeps) > 0
    /\ LastWas429
    /\ lastReply.retryAfter = <<"-", "1">>
    /\ sleeps[Len(sleeps)] = lastComputed

\* the first sleep was longer than the first computed delay can be: the
\* hint of the first attempt was applied
FirstSleepHinted ==
    /\ Len(sleeps) >= 1
    /\ sleeps[1] > minBackoffMillis

\* the reply carries no hint for Verify: a failure of the transport, or a
\* response of a status other than 429
WithoutHint(reply) ==
    \/ reply.kind = "dofail"
    \/ reply.kind = "http" /\ reply.status # 429

\* C29: only the hint of the attempt just made is applied: when the first
\* attempt was a 429 with a hint and the second fails without one, the
\* second sleep is the computed backoff, below twice the minimum delay.
C29_HintNotCarriedOver ==
    (pc = "attempt" /\ Len(sleeps) = 2 /\ hinted /\ FirstSleepHinted
       /\ WithoutHint(lastReply)) =>
        /\ sleeps[2] = lastComputed
        /\ sleeps[2] < 2 * minBackoffMillis

C29_Witness ==
    /\ pc = "attempt"
    /\ Len(sleeps) = 2
    /\ hinted
    /\ FirstSleepHinted
    /\ lastReply.kind = "dofail"
    /\ sleeps[2] = lastComputed

\* C30 (as claimed): for a status outside [200, 300) doVerify decodes no
\* body: the call ends with an HTTPError and without an outcome of its own.
C30_DecodeOnly2xx ==
    (calls > 0 /\ lastReply.kind = "http"
       /\ (lastReply.status < 200 \/ lastReply.status >= 300)) =>
        /\ LastOutcome # "ok"
        /\ err.type = "HTTPError"
        /\ pc = "done" => response.Code = VERIFY_CODES_COUNT

\* ------------------------------------------------------------------------
\* VerifyCode.String on its own
\* ------------------------------------------------------------------------
\* the values of VerifyCode that are rendered: one below the members, the
\* members, VERIFY_CODES_COUNT and the values after it
CodeInputs == -1 .. VERIFY_CODES_COUNT + MaxUnknownCodes

InitString ==
    /\ config = [APIKey |-> "pc_abcdef", Domain |-> << >>, FormField |-> "",
                 FailedStatusCode |-> 0]
    /\ client = NewClient(config).client
    /\ clientErr = NewClient(config).err
    /\ NoCall
    /\ strings \in { [codes |-> <<x, y>>, texts |-> <<"", "">>, rendered |-> FALSE] :
                       x \in CodeInputs, y \in CodeInputs }
    /\ procs = NoProcs
    /\ backoffs = NoBackoffs

\* String is called on both values
String ==
    /\ ~strings.rendered
    /\ strings' = [strings EXCEPT
                     !.texts = << VerifyCodeString(strings.codes[1]),
                                  VerifyCodeString(strings.codes[2]) >>,
                     !.rendered = TRUE]
    /\ UNCHANGED << config, client, clientErr, procs, backoffs >>
    /\ UNCHANGED callVars

NextString == String

SpecString == InitString /\ [][NextString]_vars

\* the defined members of VerifyCode
Members == 0 .. VERIFY_CODES_COUNT - 1

Procs == {1, 2}

\* the VerifyInput values of these calls
ConcInputs == [Solution : {4}, MaxBackoffSeconds : {0, 1}, Attempts : {1, 2}]

\* what a request of these calls can meet
ConcReplies ==
    { HTTPReply(StatusServiceUnavailable, << >>, "", [json |-> "garbage"]),
      HTTPReply(404, << >>, "", [json |-> "garbage"]),
      HTTPReply(200, << >>, "t1",
                [json |-> "object", success |-> TRUE, code |-> VerifyNoError]) }

\* a goroutine that has not called the client
IdleProc ==
    [pc |-> "idle", entry |-> "none", input |-> [Solution |-> 0,
     MaxBackoffSeconds |-> 0, Attempts |-> 0], i |-> 0, response |-> NilOutput,
     err |-> NoErr, replies |-> << >>, jitters |-> << >>, sleeps |-> << >>,
     reqErr |-> NoErr, served |-> NotServed]

\* the Backoff of every call is one object kept with the Client
backoffOfClient(p) == 0

\* the Backoff object the call of goroutine p uses: b, made by the call
backoffOf(p) == p

\* the form of the request a handler is called with: the solution is in the
\* field the client reads
ConcForm == CHOOSE form \in Forms : solution(client, form) # 0

InitConc ==
    /\ config \in { cfg \in Configurations : cfg.APIKey # "" }
    /\ client = NewClient(config).client
    /\ clientErr = NewClient(config).err
    /\ NoCall
    /\ strings = NoStrings
    /\ procs = [p \in Procs |-> IdleProc]
    /\ backoffs = [k \in Procs \cup {0} |-> 0]

\* goroutine p enters Verify as who with the input in: the locals of the
\* call, and its Backoff
ConcStart(p, who, in) ==
    /\ procs[p].pc = "idle"
    /\ procs' = [procs EXCEPT ![p] =
                    [IdleProc EXCEPT
                        !.pc = IF SleepsFirst(0) THEN "sleep" ELSE "attempt",
                        !.entry = who, !.input = in]]
    /\ backoffs' = [backoffs EXCEPT ![backoffOf(p)] = 0]
    /\ UNCHANGED << config, client, clientErr, strings >>
    /\ UNCHANGED callVars

\* goroutine p calls Verify
ConcVerify(p, in) == ConcStart(p, "Verify", in)

\* goroutine p serves a request by the handler of VerifyFunc
ConcVerifyFunc(p) == ConcStart(p, "VerifyFunc", RequestInput(ConcForm))

\* one iteration of the loop of the call of goroutine p, from the doVerify
\* call on
ConcAttempt(p, reply) ==
    LET s == procs[p]
        r == doVerify(reply)
        e == errAfter(s.err, r.err)
        goesOn == ShouldRetry(r.err) /\ LoopContinues(s.i + 1, s.input)
        n == IF ShouldRetry(r.err) THEN s.i + 1 ELSE s.i
        out == Stamp(r.response, n)
    IN  /\ s.pc = "attempt"
        /\ reply \in (IF EndpointValid(client.endpoint) THEN ConcReplies ELSE {ReqFail})
        /\ procs' = [procs EXCEPT ![p] =
              [s EXCEPT
                 !.replies = Append(s.replies, reply),
                 !.err = e,
                 !.i = n,
                 !.pc = IF goesOn
                        THEN (IF SleepsFirst(n) THEN "sleep" ELSE "attempt")
                        ELSE "done",
                 !.response = IF goesOn THEN r.response ELSE out,
                 !.reqErr = IF goesOn \/ s.entry = "Verify" THEN NoErr
                            ELSE VerifyRequestResult(out, e),
                 !.served = IF goesOn \/ s.entry # "VerifyFunc" THEN NotServed
                            ELSE Serve(client, VerifyRequestResult(out, e))]]
        /\ UNCHANGED << config, client, clientErr, strings, backoffs >>
        /\ UNCHANGED callVars

\* the head of an iteration of the call of goroutine p: b.Duration(), the
\* retry hint of the last error, time.Sleep
ConcSleep(p, jitter) ==
    LET s == procs[p]
        computed == ForAttempt(backoffs[backoffOf(p)],
                               maxBackoffSeconds(s.input) * 1000, jitter)
    IN  /\ s.pc = "sleep"
        /\ procs' = [procs EXCEPT ![p] =
              [s EXCEPT
                 !.pc = "attempt",
                 !.jitters = Append(s.jitters, jitter),
                 !.sleeps = Append(s.sleeps,
                                   backoffDuration(computed, s.err, s.input))]]
        /\ backoffs' = [backoffs EXCEPT ![backoffOf(p)] = backoffs[backoffOf(p)] + 1]
        /\ UNCHANGED << config, client, clientErr, strings >>
        /\ UNCHANGED callVars

NextConc ==
    \/ \E p \in Procs, in \in ConcInputs : ConcVerify(p, in)
    \/ \E p \in Procs : ConcVerifyFunc(p)
    \/ \E p \in Procs, reply \in ConcReplies \cup {ReqFail} : ConcAttempt(p, reply)
    \/ \E p \in Procs, jitter \in 0 .. JitterSteps - 1 : ConcSleep(p, jitter)

SpecConc == InitConc /\ [][NextConc]_vars

RECURSIVE VerifyLoop(_, _, _, _, _, _)
\* the loop of Verify run by itself from the iteration with counter n on,
\* e being err and slept the sleeps so far: the transport results are
\* replies, the random numbers of the Backoff are jitters
VerifyLoop(in, replies, jitters, n, e, slept) ==
    LET sl == IF SleepsFirst(n)
              THEN Append(slept,
                          backoffDuration(
                              ForAttempt(n - 1, maxBackoffSeconds(in) * 1000,
                                         jitters[n]), e, in))
              ELSE slept
        r == doVerify(replies[n + 1])
        e2 == errAfter(e, r.err)
    IN  IF ShouldRetry(r.err)
        THEN IF LoopContinues(n + 1, in)
             THEN IF n + 1 < Len(replies)
                  THEN VerifyLoop(in, replies, jitters, n + 1, e2, sl)
                  ELSE [returned |-> FALSE]
             ELSE [returned |-> TRUE, response |-> Stamp(r.response, n + 1),
                   err |-> e2, calls |-> n + 1, sleeps |-> sl]
        ELSE [returned |-> TRUE, response |-> Stamp(r.response, n),
              err |-> e2, calls |-> n + 1, sleeps |-> sl]

\* Verify run by itself on the transport results replies
VerifyAlone(in, replies, jitters) ==
    IF in.Solution = 0
    THEN [returned |-> TRUE, response |-> NilOutput, err |-> errEmtpySolution,
          calls |-> 0, sleeps |-> << >>]
    ELSE IF replies = << >> THEN [returned |-> FALSE]
    ELSE VerifyLoop(in, replies, jitters, 0, NoErr, << >>)

\* the call of goroutine p returned what the same call returns when it runs
\* by itself and meets the same transport results
OwnResults(p) ==
    LET s == procs[p]
        alone == VerifyAlone(s.input, s.replies, s.jitters)
    IN  /\ alone.returned
        /\ alone.calls = Len(s.replies)
        /\ alone.sleeps = s.sleeps
        /\ alone.response = s.response
        /\ alone.err = s.err
        /\ s.reqErr = (IF s.entry = "Verify" THEN NoErr
                       ELSE VerifyRequestResult(alone.response, alone.err))
        /\ s.served = (IF s.entry # "VerifyFunc" THEN NotServed
                       ELSE Serve(NewClient(config).client,
                                  VerifyRequestResult(alone.response, alone.err)))

\* C22: calls that run at the same time on one Client do not interfere: no
\* step of a call changes a field of the Client, and in every interleaving
\* the attempts, sleeps, outcome and error of each call are those of the
\* call run by itself on the transport results of its own attempts.
C22_NoInterference ==
    /\ [](\A p \in DOMAIN procs : procs[p].pc = "done" => OwnResults(p))
    /\ [][client' = client /\ clientErr' = clientErr]_vars

\* one call has returned after four sleeps while the other, begun
\* meanwhile, is in its first sleep
C22_Witness ==
    /\ DOMAIN procs = Procs
    /\ procs[1].pc = "done"
    /\ procs[2].pc = "sleep"
    /\ procs[1].entry = "VerifyFunc"
    /\ procs[2].entry = "Verify"
    /\ Len(procs[1].sleeps) = 4
    /\ Len(procs[2].replies) = 1
    /\ procs[1].served.next

\* C34: every sleep between attempts lasts at least the minimum delay of
\* 250 ms: a sleep taken from the Backoff is never shorter, and a sleep that
\* differs from what the Backoff computed, taken from a hint, is longer
\* than that and a whole number of seconds.
C34_SleepAtLeastMinimum ==
    /\ \A k \in DOMAIN sleeps : sleeps[k] >= minBackoffMillis
    /\ (pc = "attempt" /\ Len(sleeps) > 0) =>
          /\ lastComputed >= minBackoffMillis
          /\ sleeps[Len(sleeps)] >= lastComputed
          /\ sleeps[Len(sleeps)] # lastComputed =>
                (sleeps[Len(sleeps)] >= 1000 /\ sleeps[Len(sleeps)] % 1000 = 0)

C34_Witness ==
    /\ pc = "attempt"
    /\ Len(sleeps) = 1
    /\ LastWas429
    /\ lastReply.retryAfter = <<"0">>
    /\ sleeps[1] = minBackoffMillis

\* C33: every transport call of one Verify call sends the same request:
\* to the endpoint of the client, with the solution of the input as body
\* and the API key of the client; the input and the client stay as they are
\* while the call runs.
C33_SameRequestEveryAttempt ==
    /\ [](\A k \in DOMAIN requests :
            /\ requests[k] = requests[1]
            /\ requests[k].endpoint = client.endpoint
            /\ requests[k].body = input.Solution
            /\ requests[k].apiKey = config.APIKey
            /\ requests[k].apiKey # "")
    /\ []((~client.isNil /\ EndpointValid(client.endpoint)) =>
             Len(requests) = calls)
    /\ [][(pc = "attempt" \/ pc = "sleep") =>
            (input' = input /\ client' = client /\ request' = request)]_vars

C33_Witness ==
    /\ pc = "done"
    /\ Len(requests) = 3
    /\ requests[3] = requests[1]
    /\ requests[3].body = 4
    /\ config.Domain # << >>

\* ------------------------------------------------------------------------
\* Progress of a call
\* ------------------------------------------------------------------------
\* the client of the default Configuration, no call made
InitLive ==
    /\ config = [APIKey |-> "pc_abcdef", Domain |-> << >>, FormField |-> "",
                 FailedStatusCode |-> 0]
    /\ client = NewClient(config).client
    /\ clientErr = NewClient(config).err
    /\ NoCall
    /\ strings = NoStrings
    /\ procs = NoProcs
    /\ backoffs = NoBackoffs

\* the VerifyInput values of the calls: Attempts not set, or set
LiveInputs == [Solution : {0, 4}, MaxBackoffSeconds : {1}, Attempts : {0, 2}]

NextLive ==
    \/ \E in \in LiveInputs : Verify(in)
    \/ \E reply \in Replies : Attempt(reply)
    \/ \E jitter \in 0 .. JitterSteps - 1 : Sleep(jitter)
    \/ Cancel
    \/ Forget

\* every transport call returns and every sleep ends: a call that can take
\* its next step takes it
SpecLive ==
    InitLive /\ [][NextLive]_vars
    /\ WF_vars(\E reply \in Replies : Attempt(reply))
    /\ WF_vars(\E jitter \in 0 .. JitterSteps - 1 : Sleep(jitter))

\* C31: provided every transport call returns, every Verify call returns,
\* after at most Attempts transport calls and at most Attempts - 1 sleeps
\* (5 and 4 when Attempts is not set), whatever the transport calls meet.
C31_VerifyTerminates ==
    /\ (pc = "attempt" \/ pc = "sleep") ~> pc = "done"
    /\ [](calls <= (IF input.Attempts > 0 THEN input.Attempts ELSE 5))
    /\ [](Len(sleeps) <= (IF input.Attempts > 0 THEN input.Attempts - 1 ELSE 4))

C31_Witness ==
    /\ pc = "done"
    /\ input.Attempts = 0
    /\ input.MaxBackoffSeconds = 1
    /\ calls = 5
    /\ Len(sleeps) = 4
    /\ LastOutcome = "retriable"

\* ------------------------------------------------------------------------
\* NewClient on its own
\* ------------------------------------------------------------------------
\* n slashes
Slashes(n) == [k \in 1 .. n |-> "/"]

\* the parts a Domain is put together from
Schemes == { << >>, <<"http://">>, <<"https://">> }
Hosts == { "example.com", "httpbin.org" }
Paths == { << >>, <<"/", "api">> }

\* the Domain with these parts, n slashes at its end
MakeDomain(scheme, host, path, n) == scheme \o <<host>> \o path \o Slashes(n)

NewDomains ==
    { << >> } \cup
    { MakeDomain(scheme, host, path, n) :
        scheme \in Schemes, host \in Hosts, path \in Paths,
        n \in 0 .. MaxTrailingSlashes }

\* the values of Configuration NewClient is called with
NewConfigurations ==
    [APIKey : {"", "pc_abcdef"}, Domain : NewDomains, FormField : FormFields,
     FailedStatusCode : FailedStatusCodes]

\* NewClient has not been called
InitNew ==
    /\ config = [APIKey |-> "", Domain |-> << >>, FormField |-> "",
                 FailedStatusCode |-> 0]
    /\ client = NilClient
    /\ clientErr = NoErr
    /\ NoCall
    /\ strings = NoStrings
    /\ procs = NoProcs
    /\ backoffs = NoBackoffs

\* NewClient is called with cfg
CallNewClient(cfg) ==
    /\ client.isNil
    /\ clientErr = NoErr
    /\ config' = cfg
    /\ client' = NewClient(cfg).client
    /\ clientErr' = NewClient(cfg).err
    /\ UNCHANGED << strings, procs, backoffs >>
    /\ UNCHANGED callVars

NextNew == \E cfg \in NewConfigurations : CallNewClient(cfg)

SpecNew == InitNew /\ [][NextNew]_vars

\* C32 (as claimed): for a Domain given with a scheme NewClient reduces it
\* to the bare host: the endpoint is https://{host}/verify.
C32_SchemeDomainReducedToHost ==
    ~client.isNil =>
        \A scheme \in Schemes \ { << >> }, host \in Hosts, path \in Paths,
           n \in 0 .. MaxTrailingSlashes :
            config.Domain = MakeDomain(scheme, host, path, n) =>
                client.endpoint = <<"https://", host, "/verify">>

\* C32: NewClient sets each optional field that is not set to its default
\* and keeps the fields that are set: an empty Domain gives the global
\* domain; of a Domain the scheme http:// or https:// at its start and the
\* slashes at its end are dropped and the rest is kept, a path included;
\* the endpoint is https:// followed by that rest and /verify; an empty
\* FormField gives the default field name; FailedStatusCode 0 gives 403.
C32_DefaultsAndSchemeStripped ==
    ~client.isNil =>
        /\ client.apiKey = config.APIKey
        /\ client.formField = (IF config.FormField = ""
                               THEN "private-captcha-solution"
                               ELSE config.FormField)
        /\ client.failedStatusCode = (IF config.FailedStatusCode = 0 THEN 403
                                      ELSE config.FailedStatusCode)
        /\ config.Domain = << >> =>
              client.endpoint = <<"https://", "api.privatecaptcha.com", "/verify">>
        /\ \A scheme \in Schemes, host \in Hosts, path \in Paths,
              n \in 0 .. MaxTrailingSlashes :
               config.Domain = MakeDomain(scheme, host, path, n) =>
                   client.endpoint = <<"https://", host>> \o path \o <<"/verify">>

C32_Witness ==
    /\ ~client.isNil
    /\ config.Domain = <<"http://", "example.com", "/", "api", "/", "/">>
    /\ client.endpoint = <<"https://", "example.com", "/", "api", "/verify">>
    /\ config.FormField = ""
    /\ client.formField = "private-captcha-solution"
    /\ config.FailedStatusCode = 418

====
